---- MODULE Spec2Model ----
(***************************************************************************)
(* Control core of the TMS robot controller: RobotControl (the per-tick    *)
(* orchestrator and its message handlers) and RobotStateController (the    *)
(* five-state execution guard around the robot driver).                    *)
(*                                                                         *)
(* Time is counted in units of 0.3 s.  Poses and displacements are reduced *)
(* to their x component (all rotations zero, alignment offsets zero), so   *)
(* that composing the robot pose with a displacement is an addition and    *)
(* the norm of a position is its absolute value.                           *)
(***************************************************************************)
EXTENDS Integers, Sequences, FiniteSets, TLC

\* ------------------------------------------------------------------ bounds
MaxTime == 2
MaxFeed == 1
MaxFeedChanges == 1
MaxSamples == 2

\* ------------------------------------------------------- program constants
\* 0.3 s, the displacement freshness limit, in time units
FreshnessLimit == 1
\* length of the displacement history inspected by the frozen-feed detector
HistoryLength == 20
\* START_MOVING gives up waiting for motion once the counter exceeds this
NotMovingLimit == 10
\* the integrator of a PID loop is clamped to this magnitude
PidClamp == 1

\* ------------------------------------------------------------------ values
None == "None"
NoTime == -1
NoPose == -100
NoDisplacement == 99
NoTarget == 98
NoInterval == -1
NoMatrix == 0
NoTargetToHead == 0

\* the targets neuronavigation sends with set_target
Targets == {1}

\* process_tracker.compute_transformation_target_to_head(): the relation of the
\* target to the head pose at the time the target is set; the head pose is
\* reduced to its presence here, so the relation is told by the target alone
ComputeTransformationTargetToHead(trk, target) == 10 + target

\* self.robot once a driver object was stored in it
SomeRobot == "robot"

\* the zero matrix that heads the two lists of pose matrices
ZeroMatrix == 0

\* matrix triples (X_est, Y_est, affine_tracker_to_robot) sent by neuronavigation
MatrixTriples == {1, 2}

\* the pose of the coil marker in tracker space
CoilPose == 1

\* no calibration samples collected, no matrix triple estimated
NoCalibration ==
    [robot_coord_matrix_list |-> <<ZeroMatrix>>, coord_coil_matrix_list |-> <<ZeroMatrix>>,
     tracker_coordinates |-> <<>>, robot_coordinates |-> <<>>,
     matrix_tracker_to_robot |-> NoMatrix]

READY == "READY"
START_MOVING == "START_MOVING"
MOVING == "MOVING"
WAITING == "WAITING"
STOPPING == "STOPPING"
RobotState == {READY, START_MOVING, MOVING, WAITING, STOPPING}

NONE == "NONE"
TRACK_TARGET == "TRACK_TARGET"
MOVE_AWAY_FROM_HEAD == "MOVE_AWAY_FROM_HEAD"
RobotObjective == {NONE, TRACK_TARGET, MOVE_AWAY_FROM_HEAD}

WarnNotVisible == "Warning: Head or coil marker is not visible"
WarnTooFast == "Warning: Head is moving too fast"
WarnTooFar == "Warning: Head is too far from the robot basis"
WarnMove == "Error: Could not move the robot"
WarnPressure == "Error: Pressure force sensor is not connected."

\* raw displacements sent by neuronavigation, positions reported by the driver
Displacements == {-1, 1}
RobotPositions == {1}
DwellTimes == {0, 2}
RobotTypes == {"elfin", "ur"}

\* the safe height of the configuration file and the heights the driver reports
UserSafeHeight == 2

RobotHeights == {3}

\* a safe height above the heights the driver reports
HighSafeHeight == 4

\* the height of the stored robot pose at construction, when a pose was read
InitialHeight(pose) == IF pose = NoPose THEN NoPose ELSE 3

VARIABLES
    config,                          \* self.config / self.robot_config
    robot,                           \* self.robot: None until a robot is connected
    status_connection,               \* self.status_connection
    pid_group,                       \* self.pid_group: the integrator of the PID loops
    calibration,                     \* the calibration samples and the matrix triple
    objective,                       \* self.objective
    moving_away_from_head,           \* self.moving_away_from_head
    target_set,                      \* self.target_set
    m_target_to_head,                \* self.m_target_to_head
    target_reached,                  \* self.target_reached
    displacement_to_target,          \* self.displacement_to_target
    displacement_to_target_history,  \* self.displacement_to_target_history
    last_displacement_update_time,   \* self.last_displacement_update_time
    last_tuning_time,                \* self.last_tuning_time
    last_warning,                    \* self.last_warning
    robot_pose,                      \* self.robot_pose_storage
    robot_pose_z,                    \* the z component of the stored robot pose
    safe_height_defined_by_user,     \* self.safe_height_defined_by_user
    tracker,                         \* self.tracker
    head_moving_too_fast,            \* what process_tracker reports about the head
    state,                           \* robot_state_controller.state
    not_moving_counter,              \* robot_state_controller.not_moving_counter
    waiting_start_time,              \* robot_state_controller.waiting_start_time
    driver,                          \* motion state of the robot driver
    now,                             \* time.time()
    call,                            \* what the last handler call did
    relay                            \* relay_server: messages received, tasks, emissions

vars == <<config, safe_height_defined_by_user, robot_pose_z, robot, status_connection, pid_group, calibration, objective, moving_away_from_head, target_set, m_target_to_head, target_reached,
          displacement_to_target, displacement_to_target_history,
          last_displacement_update_time, last_tuning_time, last_warning,
          robot_pose, tracker, head_moving_too_fast, state, not_moving_counter,
          waiting_start_time, driver, now, call, relay>>


\* ------------------------------------------------------------ robot driver
\* Motion state of the driver: a motion command is first pending (accepted,
\* not yet reported as motion), then moving, then idle again.
DriverStates == {"idle", "pending", "moving"}

\* What the driver can become by itself while the controller does not command it.
DriverReach(d) ==
    CASE d = "pending" -> {"pending", "moving", "idle"}
      [] d = "moving" -> {"moving", "idle"}
      [] OTHER -> {"idle"}

IsMoving(d) == d = "moving"

\* Return values of the driver's stop_robot(): the Elfin driver has no return
\* statement; the other drivers return a success flag.
StopResults(robot_type) == IF robot_type \in {"elfin", "elfin_new_api"} THEN {None} ELSE {"True", "False"}

\* The Elfin driver class defines no is_connected(); the other drivers do.
DriverHasIsConnected(robot_type) == robot_type \notin {"elfin", "elfin_new_api"}

\* Return values of the driver's connect().
ConnectResults == {"True", "False"}

\* Python truthiness of a returned value.
Truthy(v) == v = "True"

\* ------------------------------------------------- RobotStateController
DwellElapsed_Early(t, start, dwell) == dwell - (t - start) <= 1

DwellElapsed(t, start, dwell) == dwell - (t - start) <= 0

GaveUpWaitingForMotion(counter) == counter > NotMovingLimit

\* the states the state machine entered, in order, extended by a change from old to new
StateChange(changes, old, new) == IF new # old THEN Append(changes, new) ELSE changes

\* the line update() prints at its end: the state, if it is not the one update() started in
StateLog(logs, previous_state, new) ==
    IF new # previous_state THEN Append(logs, new) ELSE logs

StateUpdate_StoppingIsTerminal(c, m1, m2, m3, t, dwell) ==
    LET s1 == IF c.state = START_MOVING /\ m1 THEN MOVING ELSE c.state
        n1 == IF c.state = START_MOVING /\ ~m1
              THEN c.not_moving_counter + 1 ELSE c.not_moving_counter
        stopped_moving ==
            \/ c.state = START_MOVING /\ ~m1 /\ GaveUpWaitingForMotion(n1)
            \/ s1 = MOVING /\ ~m2
        s2 == IF stopped_moving THEN WAITING ELSE s1
        w2 == IF stopped_moving THEN t ELSE c.waiting_start_time
        s3 == IF s2 = WAITING /\ DwellElapsed(t, w2, dwell) THEN READY ELSE s2
    IN [c EXCEPT !.state = s3, !.not_moving_counter = n1,
                 !.waiting_start_time = w2,
                 !.changes = StateChange(StateChange(StateChange(
                                 @, c.state, s1), s1, s2), s2, s3),
                 !.logs = StateLog(@, c.state, s3)]

\* RobotStateController.update(): m1, m2, m3 are the answers of the three
\* is_moving() polls, t the time.
StateUpdate(c, m1, m2, m3, t, dwell) ==
    LET s1 == IF c.state = START_MOVING /\ m1 THEN MOVING ELSE c.state
        n1 == IF c.state = START_MOVING /\ ~m1
              THEN c.not_moving_counter + 1 ELSE c.not_moving_counter
        stopped_moving ==
            \/ c.state = START_MOVING /\ ~m1 /\ GaveUpWaitingForMotion(n1)
            \/ s1 = MOVING /\ ~m2
        s2 == IF stopped_moving THEN WAITING ELSE s1
        w2 == IF stopped_moving THEN t ELSE c.waiting_start_time
        s3 == IF s2 = WAITING /\ DwellElapsed(t, w2, dwell) THEN READY ELSE s2
        s4 == IF s3 = STOPPING /\ ~m3 THEN READY ELSE s3
        \* the is_moving() calls the conditions actually make
        polls == (IF c.state = START_MOVING THEN <<m1>> ELSE <<>>)
                 \o (IF s1 = MOVING THEN <<m2>> ELSE <<>>)
                 \o (IF s3 = STOPPING THEN <<m3>> ELSE <<>>)
    IN [c EXCEPT !.state = s4, !.not_moving_counter = n1,
                 !.waiting_start_time = w2, !.polls = @ \o polls,
                 !.changes = StateChange(StateChange(StateChange(StateChange(
                                 @, c.state, s1), s1, s2), s2, s3), s3, s4),
                 !.logs = StateLog(@, c.state, s4)]

SetStateToStartMoving_Always(c, dwell) ==
    [c EXCEPT !.state = START_MOVING, !.not_moving_counter = 0,
              !.changes = StateChange(@, c.state, START_MOVING)]

SetStateToStartMoving(c, dwell) ==
    IF dwell = 0 THEN c
    ELSE [c EXCEPT !.state = START_MOVING, !.not_moving_counter = 0,
                   !.changes = StateChange(@, c.state, START_MOVING)]

SetStateToStopping(c) ==
    [c EXCEPT !.state = STOPPING, !.changes = StateChange(@, c.state, STOPPING)]

\* ------------------------------------------------------------ RobotControl
\* The controller fields a handler may change, with the record of what the
\* handler did: driver commands, reset_state() calls, messages published.
Ctx ==
    [state |-> state, not_moving_counter |-> not_moving_counter,
     waiting_start_time |-> waiting_start_time, objective |-> objective,
     moving_away_from_head |-> moving_away_from_head,
     displacement_to_target |-> displacement_to_target,
     last_tuning_time |-> last_tuning_time, driver |-> driver,
     cmds |-> <<>>, resets |-> 0, sent |-> <<>>, r |-> None, warning |-> "",
     is_connected |-> None, connects |-> <<>>,
     status_connection |-> status_connection, polls |-> <<>>, pose_poll |-> None,
     force |-> None, changes |-> <<>>, logs |-> <<>>, stops |-> <<>>]

Has(seq, x) == \E i \in 1..Len(seq) : seq[i] = x

\* RobotControl.stop_robot(): the stop command goes to the driver, which may
\* or may not have come to rest when the call returns.
StopRobot_StoppingAnyway(c, robot_type) ==
    { LET c1 == [c EXCEPT !.cmds = Append(@, "stop"), !.driver = d, !.r = ok]
          c2 == SetStateToStopping(c1)
      IN [c2 EXCEPT !.stops = Append(@, [reported |-> ok, returned |-> c2.r,
                                         before |-> c.state, after |-> c2.state])]
      : ok \in StopResults(robot_type), d \in {c.driver, "idle"} }

StopRobot(c, robot_type) ==
    { LET c1 == [c EXCEPT !.cmds = Append(@, "stop"), !.driver = d, !.r = ok]
          c2 == IF Truthy(ok) THEN SetStateToStopping(c1) ELSE c1
      IN [c2 EXCEPT !.stops = Append(@, [reported |-> ok, returned |-> c2.r,
                                         before |-> c.state, after |-> c2.state])]
      : ok \in StopResults(robot_type), d \in {c.driver, "idle"} }

ResetState(c) == [c EXCEPT !.resets = @ + 1]

SendObjectiveToNeuronavigation(c) ==
    IF config.remote_control
    THEN [c EXCEPT !.sent = Append(@, <<"set_objective", c.objective>>)]
    ELSE c

Return(c, r, warning) == [c EXCEPT !.r = r, !.warning = warning]

\* ---------------------------------------------------- derived tick state
Abs(x) == IF x < 0 THEN -x ELSE x

\* np.linalg.norm of a position
Norm(x) == Abs(x)

\* the x / rx sign reversal applied to a displacement on ingress
FlipHandedness(d) == -d

\* compute_target_in_robot_space(): the robot pose composed with the
\* displacement; None when there is no displacement.
ComputeTargetInRobotSpace(pose, displacement) ==
    IF displacement = NoDisplacement THEN NoTarget ELSE pose + displacement

\* update_state_variables() raises when it composes a pose that was never read.
StateVariablesRaise(trk, pose, displacement) ==
    trk.head_pose /\ displacement # NoDisplacement /\ pose = NoPose

\* update_state_variables(): the state variables the guards read.
StateVariables(trk, pose, displacement) ==
    IF ~trk.head_pose
    THEN [head_center |-> FALSE, head_pose_in_robot_space |-> FALSE,
          target_from_displacement |-> NoTarget]
    ELSE [head_center |-> trk.m_tracker_to_robot # NoMatrix,
          head_pose_in_robot_space |-> TRUE,
          target_from_displacement |-> ComputeTargetInRobotSpace(pose, displacement)]

\* ------------------------------------------------- track-target guards
MarkersVisible_HeadOnly(trk) == trk.head_visible

MarkersVisible(trk) == trk.head_visible /\ trk.coil_visible

OutsideWorkingSpace_Strict(target, radius) == Norm(target) > radius

OutsideWorkingSpace(target, radius) == Norm(target) >= radius

RobotReady_NotMoving(st) == st # MOVING

RobotReady(st) == st = READY

PreviousMovementOngoing(st) == st \in {MOVING, START_MOVING}

IsTimeToTune_AtInterval(t, last, interval) ==
    IF interval # NoInterval THEN last # NoTime /\ t - last >= interval ELSE FALSE

IsTimeToTune(t, last, interval) ==
    IF interval # NoInterval THEN last # NoTime /\ t - last > interval ELSE FALSE

DisplacementStale_Lenient(t, last) == t > last + FreshnessLimit + 1

DisplacementStale(t, last) == t > last + FreshnessLimit

\* what a motion command does to the driver
MotionCommand(d) == IF d = "moving" THEN "moving" ELSE "pending"

\* the answers of the force source, when there is one
ForceAnswers == IF config.use_pressure_sensor THEN BOOLEAN ELSE {TRUE}

StopAndReset_NoReset(c, warning) ==
    { Return(c1, "True", warning) : c1 \in StopRobot(c, config.robot) }

\* the part of the safety reactions shared by the head-loss and too-fast guards
StopAndReset(c, warning) ==
    { Return(ResetState(c1), "True", warning) : c1 \in StopRobot(c, config.robot) }

\* movement_algorithm.move_decision() and what follows it
MoveDecision(c) ==
    { LET c1 == [c EXCEPT !.cmds = Append(@, "move_decision"),
                          !.driver = IF ok THEN MotionCommand(@) ELSE @]
      IN IF ~ok THEN Return(c1, "False", WarnMove)
         ELSE IF config.use_pressure_sensor /\ ~ready
              THEN Return(c1, "False", WarnPressure)
              ELSE Return(SetStateToStartMoving(c1, config.dwell_time), "True", "")
      : ok \in BOOLEAN, ready \in ForceAnswers }

\* what the holding guard learnt about the force: there is a force source
\* only when the pressure sensor is configured
ForceAnswer(force_ok) ==
    IF ~config.use_pressure_sensor THEN "absent"
    ELSE IF force_ok THEN "True" ELSE "False"

\* the guards after the READY check: holding, freshness, then the movement
TrackTargetWhenReady(c, t) ==
    UNION { IF target_reached /\ ~IsTimeToTune(t, c.last_tuning_time, config.tuning_interval)
               /\ force_ok
            THEN {Return([c EXCEPT !.force = ForceAnswer(force_ok)], "True", "")}
            ELSE LET c1 == [c EXCEPT !.last_tuning_time = t, !.force = ForceAnswer(force_ok)]
                 IN IF c1.displacement_to_target = NoDisplacement
                    THEN {Return(c1, "True", "")}
                    ELSE IF DisplacementStale(t, last_displacement_update_time)
                         THEN {Return([c1 EXCEPT !.displacement_to_target = NoDisplacement], "True", "")}
                         ELSE MoveDecision(c1)
            : force_ok \in ForceAnswers }

HandleObjectiveTrackTarget_VisibilityFirst(c, sv, t) ==
    IF ~MarkersVisible(tracker) /\ config.stop_robot_if_head_not_visible
    THEN StopAndReset(c, WarnNotVisible)
    ELSE IF ~target_set THEN {Return(c, "False", "")}
    ELSE IF ~sv.head_center THEN {Return(c, "False", "")}
    ELSE IF ~sv.head_pose_in_robot_space THEN {Return(c, "False", "")}
    ELSE IF tracker.m_tracker_to_robot = NoMatrix THEN {Return(c, "False", "")}
    ELSE IF head_moving_too_fast THEN StopAndReset(c, WarnTooFast)
    ELSE IF sv.target_from_displacement = NoTarget THEN {Return(c, "True", "")}
    ELSE IF OutsideWorkingSpace(sv.target_from_displacement, config.working_space_radius)
         THEN {Return(c, "True", WarnTooFar)}
    ELSE IF ~RobotReady(c.state) THEN {Return(c, "True", "")}
    ELSE TrackTargetWhenReady(c, t)

\* handle_objective_track_target()
HandleObjectiveTrackTarget(c, sv, t) ==
    IF ~target_set THEN {Return(c, "False", "")}
    ELSE IF ~sv.head_center THEN {Return(c, "False", "")}
    ELSE IF ~sv.head_pose_in_robot_space THEN {Return(c, "False", "")}
    ELSE IF tracker.m_tracker_to_robot = NoMatrix THEN {Return(c, "False", "")}
    ELSE IF ~MarkersVisible(tracker) /\ config.stop_robot_if_head_not_visible
         THEN StopAndReset(c, WarnNotVisible)
    ELSE IF head_moving_too_fast THEN StopAndReset(c, WarnTooFast)
    ELSE IF sv.target_from_displacement = NoTarget THEN {Return(c, "True", "")}
    ELSE IF OutsideWorkingSpace(sv.target_from_displacement, config.working_space_radius)
         THEN {Return(c, "True", WarnTooFar)}
    ELSE IF ~RobotReady(c.state) THEN {Return(c, "True", "")}
    ELSE TrackTargetWhenReady(c, t)

\* handle_objective_move_away_from_head()
HandleObjectiveMoveAwayFromHead(c) ==
    IF c.moving_away_from_head /\ ~PreviousMovementOngoing(c.state)
    THEN {Return(SendObjectiveToNeuronavigation(
                    [c EXCEPT !.moving_away_from_head = FALSE, !.objective = NONE]),
                 "True", "")}
    ELSE IF c.moving_away_from_head THEN {Return(c, "True", "")}
    ELSE IF PreviousMovementOngoing(c.state)
         THEN { Return(c1, c1.r, "") : c1 \in StopRobot(c, config.robot) }
    ELSE IF ~RobotReady(c.state) THEN {Return(c, "True", "")}
    ELSE { LET c1 == [c EXCEPT !.cmds = Append(@, "move_away_from_head"),
                               !.driver = IF ok THEN MotionCommand(@) ELSE @,
                               !.moving_away_from_head = ok]
           IN IF ok THEN Return(SetStateToStartMoving(c1, config.dwell_time), "True", "")
              ELSE Return(c1, "False", "")
           : ok \in BOOLEAN }

HandleObjectiveNone_WhileStarting(c) ==
    IF ~PreviousMovementOngoing(c.state) THEN {Return(c, "True", "")}
    ELSE { Return(c1, c1.r, "")
           : c1 \in StopRobot([c EXCEPT !.moving_away_from_head = FALSE], config.robot) }

\* handle_objective_none()
HandleObjectiveNone(c) ==
    IF c.state # MOVING THEN {Return(c, "True", "")}
    ELSE { Return(c1, c1.r, "")
           : c1 \in StopRobot([c EXCEPT !.moving_away_from_head = FALSE], config.robot) }

\* send_warning_to_neuronavigation(), as called by update_navigation_variables()
SendWarningToNeuronavigation(c, last) ==
    IF config.remote_control /\ last # ""
    THEN [c EXCEPT !.sent = Append(@, <<"update_robot_warning", c.warning>>)]
    ELSE c

\* --------------------------------------------------------------- update()
\* robot.get_pose(): the poll succeeds with a pose or fails
SuccessfulPosePolls ==
    { [ok |-> "True", pose |-> p, z |-> z] : p \in RobotPositions, z \in RobotHeights }

FailedPosePolls == {[ok |-> "False", pose |-> NoPose, z |-> NoPose]}

PosePolls == SuccessfulPosePolls \cup FailedPosePolls

\* update_robot_pose(): the pose the Pose Store holds after the poll
UpdateRobotPose(pose, poll) == IF Truthy(poll.ok) THEN poll.pose ELSE pose

\* set_safe_height(): the user's safe height, or the robot's height when the
\* robot is above it; the head pose is not used
SetSafeHeight(head_pose_in_robot_space, user_height, z) ==
    IF z = NoPose THEN user_height
    ELSE IF z < user_height THEN user_height ELSE z

\* update_state_variables(): config["safe_height"] after the tick
SafeHeightAfter(trk, z, sv) ==
    IF trk.head_pose /\ trk.m_tracker_to_robot # NoMatrix
    THEN SetSafeHeight(sv.head_pose_in_robot_space, safe_height_defined_by_user, z)
    ELSE config.safe_height

\* robot_state_controller.update() for every way the driver can answer the
\* successive is_moving() polls
StateUpdates(c, t) ==
    { StateUpdate([c EXCEPT !.driver = d3],
                  IsMoving(c.driver), IsMoving(d2), IsMoving(d3), t, config.dwell_time)
      : <<d2, d3>> \in { pr \in DriverStates \X DriverStates :
                           pr[1] \in DriverReach(c.driver) /\ pr[2] \in DriverReach(pr[1]) } }

\* the dispatch on the objective
Dispatch(c, sv, t) ==
    CASE c.objective = NONE -> HandleObjectiveNone(c)
      [] c.objective = TRACK_TARGET -> HandleObjectiveTrackTarget(c, sv, t)
      [] c.objective = MOVE_AWAY_FROM_HEAD -> HandleObjectiveMoveAwayFromHead(c)

\* one tick from the pose poll on: its outcomes
TickFromPosePoll(c, t, pose_polls) ==
    UNION { UNION {
        LET pose == UpdateRobotPose(robot_pose, poll)
            z == UpdateRobotPose(robot_pose_z, [poll EXCEPT !.pose = poll.z])
            sv == StateVariables(tracker, pose, c1.displacement_to_target)
            safe_height == SafeHeightAfter(tracker, z, sv)
        IN IF StateVariablesRaise(tracker, pose, c1.displacement_to_target)
           THEN {[c |-> [c1 EXCEPT !.r = "raised"], pose |-> pose, z |-> z,
                  safe_height |-> safe_height, state0 |-> c1.state, published |-> FALSE]}
           ELSE { [c |-> SendWarningToNeuronavigation(c2, last_warning), pose |-> pose,
                   z |-> z, safe_height |-> safe_height, state0 |-> c1.state,
                   published |-> TRUE]
                  : c2 \in Dispatch(c1, sv, t) }
        : c1 \in StateUpdates([c EXCEPT !.pose_poll = poll.ok], t) }
        : poll \in pose_polls }

ReconnectToRobot_Retry(c) ==
    { [c EXCEPT !.connects = Append(@, ok), !.r = ok] : ok \in {"True"} }
    \cup { [c EXCEPT !.connects = @ \o <<"False", ok>>, !.r = ok] : ok \in ConnectResults }

\* reconnect_to_robot(): one connect() of the driver
ReconnectToRobot(c) ==
    { [c EXCEPT !.connects = Append(@, ok), !.r = ok] : ok \in ConnectResults }

\* a tick that ends before the pose poll
TickEndsEarly(c) ==
    [c |-> c, pose |-> robot_pose, z |-> robot_pose_z, safe_height |-> config.safe_height,
     state0 |-> None, published |-> FALSE]

\* update(): all outcomes of one tick.  The connection of the driver can be
\* lost before any tick.  The is_connected() call raises when self.robot is
\* None and when the driver class does not define it.
TickOutcomes(c, t, pose_polls) ==
    IF robot = None \/ ~DriverHasIsConnected(config.robot)
    THEN {TickEndsEarly([c EXCEPT !.r = "raised"])}
    ELSE TickFromPosePoll([c EXCEPT !.is_connected = "True"], t, pose_polls)
         \cup UNION { IF Truthy(c1.r) THEN TickFromPosePoll(c1, t, pose_polls)
                      ELSE {TickEndsEarly(Return(c1, "False", ""))}
                      : c1 \in ReconnectToRobot([c EXCEPT !.is_connected = "False"]) }

\* the relay server after start: nothing received, no task, nothing emitted
NoRelay == [received |-> <<>>, tasks |-> <<>>, emitted |-> <<>>]

\* a call that commanded nothing and published nothing
Quiet ==
    [op |-> "-", arg |-> None, objective |-> NONE, state0 |-> None, cmds |-> <<>>,
     resets |-> 0, sent |-> <<>>, ret |-> None, warning |-> "",
     is_connected |-> None, connects |-> <<>>, polls |-> <<>>, pose_poll |-> None,
     force |-> None, changes |-> <<>>, logs |-> <<>>, stops |-> <<>>]

CallOf(op, o, c) ==
    [op |-> op, arg |-> None, objective |-> o, state0 |-> None, cmds |-> c.cmds,
     resets |-> c.resets, sent |-> c.sent, ret |-> c.r, warning |-> c.warning,
     is_connected |-> c.is_connected, connects |-> c.connects, polls |-> c.polls,
     pose_poll |-> c.pose_poll, force |-> c.force, changes |-> c.changes,
     logs |-> c.logs, stops |-> c.stops]

\* the controller fields of a handler's outcome become the new state
Commit(c) ==
    /\ state' = c.state
    /\ not_moving_counter' = c.not_moving_counter
    /\ waiting_start_time' = c.waiting_start_time
    /\ objective' = c.objective
    /\ moving_away_from_head' = c.moving_away_from_head
    /\ displacement_to_target' = c.displacement_to_target
    /\ last_tuning_time' = c.last_tuning_time
    /\ driver' = c.driver

\* update(): one tick with the given outcome
Tick(out) ==
        /\ Commit(out.c)
        /\ robot_pose' = out.pose
        /\ robot_pose_z' = out.z
        /\ config' = [config EXCEPT !.safe_height = out.safe_height]
        /\ last_warning' = IF out.published THEN out.c.warning ELSE last_warning
        /\ call' = [CallOf("update", objective, out.c) EXCEPT !.state0 = out.state0]
        /\ UNCHANGED <<relay, safe_height_defined_by_user, status_connection, robot, pid_group, calibration, target_set, m_target_to_head, target_reached, displacement_to_target_history,
                       last_displacement_update_time, tracker, head_moving_too_fast,
                       now>>

\* update(): a tick that ends before the pose poll or whose pose poll succeeds
Update == \E out \in TickOutcomes(Ctx, now, SuccessfulPosePolls) : Tick(out)

\* update(): a tick whose pose poll fails
UpdateWithFailedPosePoll ==
    \E out \in TickOutcomes(Ctx, now, FailedPosePolls) :
        out.c.pose_poll = "False" /\ Tick(out)

\* ------------------------------------------------------- message handlers
\* the movement algorithm takes its displacement from the PID group
UsesPid == config.movement_algorithm = "directly_PID"

\* the integrator after pid_group.update_translation(), with its clamping
PidUpdate(integral, displacement) ==
    LET sum == integral + displacement
    IN IF sum > PidClamp THEN PidClamp ELSE IF sum < -PidClamp THEN -PidClamp ELSE sum

\* pid_group.get_outputs(): proportional plus integral term
PidOutput(integral, displacement) == displacement + integral

\* pid_group.clear()
PidClear == 0

HistoryFull_Late(h) == Len(h) > HistoryLength

HistoryFull(h) == Len(h) >= HistoryLength

AllSame(h) == \A i \in 1..Len(h) : h[i] = h[1]

\* del self.displacement_to_target_history[0]
DropOldest(h) == IF HistoryFull(h) THEN Tail(h) ELSE h

\* the frozen-feed reaction of on_update_displacement_to_target()
FrozenFeedStop(c) ==
    IF robot = None THEN {[c EXCEPT !.r = "raised"]}
    ELSE { SendObjectiveToNeuronavigation([c1 EXCEPT !.objective = NONE])
           : c1 \in StopRobot(c, config.robot) }

\* on_update_displacement_to_target(), raw being data["displacement"]
OnUpdateDisplacementToTarget(raw) ==
    LET displacement == FlipHandedness(raw)
        integral == IF UsesPid THEN PidUpdate(pid_group, displacement) ELSE pid_group
        c0 == [Ctx EXCEPT !.displacement_to_target =
                             IF UsesPid THEN PidOutput(integral, displacement)
                             ELSE displacement]
        h == Append(displacement_to_target_history, displacement)
    IN /\ \E c \in (IF HistoryFull(h) /\ AllSame(h) THEN FrozenFeedStop(c0) ELSE {c0}) :
            /\ Commit(c)
            /\ call' = [CallOf("update_displacement_to_target", objective, c)
                            EXCEPT !.arg = ToString(raw)]
       /\ pid_group' = integral
       /\ last_displacement_update_time' = now
       /\ displacement_to_target_history' =
              IF HistoryFull(h) /\ AllSame(h) /\ robot = None THEN h ELSE DropOldest(h)
       /\ UNCHANGED <<relay, config, safe_height_defined_by_user, robot_pose_z, status_connection, robot, calibration, target_set, m_target_to_head, target_reached, last_warning,
                      robot_pose, tracker, head_moving_too_fast, now>>

\* on_set_objective()
OnSetObjective(o) ==
    LET c0 == [Ctx EXCEPT !.objective = o]
        c == IF robot = None THEN [c0 EXCEPT !.r = "raised"]
             ELSE SendObjectiveToNeuronavigation(ResetState(c0))
    IN /\ Commit(c)
       /\ call' = [CallOf("set_objective", objective, c) EXCEPT !.arg = o]
       /\ pid_group' = IF robot # None /\ UsesPid THEN PidClear ELSE pid_group
       /\ UNCHANGED <<relay, config, safe_height_defined_by_user, robot_pose_z, status_connection, robot, calibration, target_set, m_target_to_head, target_reached, displacement_to_target_history,
                      last_displacement_update_time, last_warning, robot_pose, tracker,
                      head_moving_too_fast, now>>

OnSetTarget_WithoutRobot ==
    \E target \in Targets :
    LET c == ResetState(Ctx)
    IN /\ Commit(c)
       /\ target_set' = TRUE
       /\ m_target_to_head' = ComputeTransformationTargetToHead(tracker, target)
       /\ call' = CallOf("set_target", objective, c)
       /\ pid_group' = IF UsesPid THEN PidClear ELSE pid_group
       /\ UNCHANGED <<relay, config, safe_height_defined_by_user, robot_pose_z, status_connection, robot, calibration, target_reached, displacement_to_target_history,
                      last_displacement_update_time, last_warning, robot_pose, tracker,
                      head_moving_too_fast, now>>

\* on_set_target()
OnSetTarget ==
    \E target \in Targets :
    LET c == IF robot = None THEN Ctx ELSE ResetState(Ctx)
    IN /\ Commit(c)
       /\ target_set' = (robot # None \/ target_set)
       /\ m_target_to_head' = IF robot = None THEN m_target_to_head
                               ELSE ComputeTransformationTargetToHead(tracker, target)
       /\ call' = CallOf("set_target", objective, c)
       /\ pid_group' = IF robot # None /\ UsesPid THEN PidClear ELSE pid_group
       /\ UNCHANGED <<relay, config, safe_height_defined_by_user, robot_pose_z, status_connection, robot, calibration, target_reached, displacement_to_target_history,
                      last_displacement_update_time, last_warning, robot_pose, tracker,
                      head_moving_too_fast, now>>

\* on_unset_target()
OnUnsetTarget ==
    LET c == SendObjectiveToNeuronavigation([Ctx EXCEPT !.objective = NONE])
    IN /\ Commit(c)
       /\ target_set' = FALSE
       /\ m_target_to_head' = NoTargetToHead
       /\ call' = CallOf("unset_target", objective, c)
       /\ UNCHANGED <<relay, config, safe_height_defined_by_user, robot_pose_z, status_connection, robot, pid_group, calibration, target_reached, displacement_to_target_history,
                      last_displacement_update_time, last_warning, robot_pose, tracker,
                      head_moving_too_fast, now>>

\* on_coil_at_target()
OnCoilAtTarget(reached) ==
    /\ target_reached' = reached
    /\ call' = Quiet
    /\ UNCHANGED <<relay, config, safe_height_defined_by_user, robot_pose_z, status_connection, robot, pid_group, calibration, objective, moving_away_from_head, target_set, m_target_to_head,
                   displacement_to_target, displacement_to_target_history,
                   last_displacement_update_time, last_tuning_time, last_warning,
                   robot_pose, tracker, head_moving_too_fast, state, not_moving_counter,
                   waiting_start_time, driver, now>>

\* on_update_tracker_poses(): poses and visibilities are stored together
OnUpdateTrackerPoses(head_visible, coil_visible) ==
    /\ tracker' = [tracker EXCEPT !.head_pose = TRUE, !.head_visible = head_visible,
                                  !.coil_visible = coil_visible]
    /\ call' = Quiet
    /\ UNCHANGED <<relay, config, safe_height_defined_by_user, robot_pose_z, status_connection, robot, pid_group, calibration, objective, moving_away_from_head, target_set, m_target_to_head, target_reached,
                   displacement_to_target, displacement_to_target_history,
                   last_displacement_update_time, last_tuning_time, last_warning,
                   robot_pose, head_moving_too_fast, state, not_moving_counter,
                   waiting_start_time, driver, now>>

\* on_set_robot_transformation_matrix(), m being the triple of data["data"]
OnSetRobotTransformationMatrix(m) ==
    /\ calibration' = [calibration EXCEPT !.matrix_tracker_to_robot = m]
    /\ tracker' = [tracker EXCEPT !.m_tracker_to_robot = m]
    /\ call' = [Quiet EXCEPT !.op = "set_robot_transformation_matrix"]
    /\ UNCHANGED <<relay, config, safe_height_defined_by_user, robot_pose_z, status_connection, robot, pid_group, objective, moving_away_from_head, target_set, m_target_to_head,
                   target_reached, displacement_to_target, displacement_to_target_history,
                   last_displacement_update_time, last_tuning_time, last_warning,
                   robot_pose, head_moving_too_fast, state, not_moving_counter,
                   waiting_start_time, driver, now>>

\* create_calibration_point() can collect a sample
CanCollectPoint(trk, pose) == trk.coil_visible /\ pose # NoPose

CreateCalibrationPoint_PoseMatricesOnly(cal, trk, pose) ==
    IF CanCollectPoint(trk, pose)
    THEN [cal EXCEPT !.robot_coord_matrix_list = Append(@, pose),
                     !.coord_coil_matrix_list = Append(@, CoilPose),
                     !.tracker_coordinates = Append(@, CoilPose),
                     !.robot_coordinates = Append(@, pose)]
    ELSE [cal EXCEPT !.robot_coord_matrix_list = Append(@, pose),
                     !.coord_coil_matrix_list = Append(@, CoilPose)]

\* create_calibration_point(): the sample lists after the call
CreateCalibrationPoint(cal, trk, pose) ==
    IF CanCollectPoint(trk, pose)
    THEN [cal EXCEPT !.robot_coord_matrix_list = Append(@, pose),
                     !.coord_coil_matrix_list = Append(@, CoilPose),
                     !.tracker_coordinates = Append(@, CoilPose),
                     !.robot_coordinates = Append(@, pose)]
    ELSE cal

\* on_create_point()
OnCreatePoint ==
    /\ calibration' = CreateCalibrationPoint(calibration, tracker, robot_pose)
    /\ call' = [Quiet EXCEPT
                  !.op = "create_point",
                  !.ret = IF CanCollectPoint(tracker, robot_pose) THEN "True" ELSE "False",
                  !.sent = IF CanCollectPoint(tracker, robot_pose) /\ config.remote_control
                           THEN <<<<"coordinates_collected", None>>>> ELSE <<>>]
    /\ UNCHANGED <<relay, config, safe_height_defined_by_user, robot_pose_z, status_connection, robot, pid_group, objective, moving_away_from_head, target_set, m_target_to_head,
                   target_reached, displacement_to_target, displacement_to_target_history,
                   last_displacement_update_time, last_tuning_time, last_warning,
                   robot_pose, tracker, head_moving_too_fast, state, not_moving_counter,
                   waiting_start_time, driver, now>>

\* on_reset_robot_matrix()
OnResetRobotMatrix ==
    /\ calibration' = NoCalibration
    /\ call' = [Quiet EXCEPT !.op = "reset_robot_matrix"]
    /\ UNCHANGED <<relay, config, safe_height_defined_by_user, robot_pose_z, status_connection, robot, pid_group, objective, moving_away_from_head, target_set, m_target_to_head,
                   target_reached, displacement_to_target, displacement_to_target_history,
                   last_displacement_update_time, last_tuning_time, last_warning,
                   robot_pose, tracker, head_moving_too_fast, state, not_moving_counter,
                   waiting_start_time, driver, now>>

\* How the estimation of on_robot_matrix_estimation() can end: with the
\* triple, with numpy.linalg.LinAlgError (singular system), or, without
\* samples, with the ValueError of np.stack on an empty list.
EstimationOutcomes(cal) ==
    IF cal.tracker_coordinates = <<>> THEN {"singular", "raised"}
    ELSE {"singular", "estimated"}

\* the triple estimated from the samples
EstimatedMatrix(cal) == Cardinality(MatrixTriples) + Len(cal.tracker_coordinates)

RobotMatrixEstimation_ClearsOnFailure(cal, trk, out) ==
    LET m == IF out = "estimated" THEN EstimatedMatrix(cal) ELSE NoMatrix
    IN [calibration |-> [cal EXCEPT !.matrix_tracker_to_robot = m],
        tracker |-> [trk EXCEPT !.m_tracker_to_robot = m],
        sent |-> IF out = "estimated" /\ config.remote_control
                 THEN <<<<"update_robot_transformation_matrix", m>>>> ELSE <<>>]

\* on_robot_matrix_estimation(): what the handler stores and publishes
RobotMatrixEstimation(cal, trk, out) ==
    IF out = "estimated"
    THEN LET m == EstimatedMatrix(cal)
         IN [calibration |-> [cal EXCEPT !.matrix_tracker_to_robot = m],
             tracker |-> [trk EXCEPT !.m_tracker_to_robot = m],
             sent |-> IF config.remote_control
                      THEN <<<<"update_robot_transformation_matrix", m>>>> ELSE <<>>]
    ELSE [calibration |-> cal, tracker |-> trk, sent |-> <<>>]

OnRobotMatrixEstimation ==
    \E out \in EstimationOutcomes(calibration) :
        LET est == RobotMatrixEstimation(calibration, tracker, out)
        IN /\ calibration' = est.calibration
           /\ tracker' = est.tracker
           /\ call' = [Quiet EXCEPT !.op = "robot_matrix_estimation", !.arg = out,
                                    !.sent = est.sent,
                                    !.ret = IF out = "raised" THEN "raised" ELSE None]
           /\ UNCHANGED <<relay, config, safe_height_defined_by_user, robot_pose_z, status_connection, robot, pid_group, objective, moving_away_from_head,
                          target_set, m_target_to_head, target_reached, displacement_to_target,
                          displacement_to_target_history, last_displacement_update_time,
                          last_tuning_time, last_warning, robot_pose, head_moving_too_fast,
                          state, not_moving_counter, waiting_start_time, driver, now>>

\* on_keypress() for the key f12
OnKeypressF12 ==
    \E c1 \in StopRobot(Ctx, config.robot) :
        LET c == IF robot = None THEN [Ctx EXCEPT !.r = "raised"]
                 ELSE SendObjectiveToNeuronavigation([c1 EXCEPT !.objective = NONE])
        IN /\ Commit(c)
           /\ call' = [CallOf("keypress", objective, c) EXCEPT !.arg = "f12"]
           /\ UNCHANGED <<relay, config, safe_height_defined_by_user, robot_pose_z, status_connection, robot, pid_group, calibration, target_set, m_target_to_head, target_reached, displacement_to_target_history,
                          last_displacement_update_time, last_warning, robot_pose, tracker,
                          head_moving_too_fast, now>>

\* the connection status, as published to neuronavigation
SendConnectionStatus(c) ==
    IF config.remote_control
    THEN [c EXCEPT !.sent = Append(@, <<"robot_connection_status", c.status_connection>>)]
    ELSE c

SendCloseRobotDialog(c) ==
    IF config.remote_control
    THEN [c EXCEPT !.sent = Append(@, <<"close_robot_dialog", None>>)]
    ELSE c

\* connect_to_robot().  The Elfin constructor is called without its config
\* argument, the robot type 'test' leaves success unassigned, and after a
\* successful connect() the state controller is constructed with a keyword
\* its constructor does not have: these attempts raise.
ConnectToRobot(c) ==
    LET c0 == SendConnectionStatus([c EXCEPT !.status_connection = "Trying to connect"])
    IN IF config.robot \in {"elfin", "elfin_new_api", "test"}
       THEN {[c0 EXCEPT !.r = "raised"]}
       ELSE { LET c1 == [c0 EXCEPT !.connects = Append(@, ok)]
              IN IF Truthy(ok)
                 THEN [c1 EXCEPT !.status_connection = "Connected", !.r = "raised"]
                 ELSE SendConnectionStatus(
                          SendCloseRobotDialog(
                              [c1 EXCEPT !.status_connection = "Unable to connect"]))
              : ok \in ConnectResults }

\* on_robot_connection()
OnRobotConnection ==
    \E c \in ConnectToRobot(Ctx) :
        /\ Commit(c)
        /\ robot' = IF c.r = "raised" THEN robot ELSE None
        /\ call' = CallOf("robot_connection", objective, c)
        /\ status_connection' = c.status_connection
        /\ UNCHANGED <<relay, config, safe_height_defined_by_user, robot_pose_z, pid_group, calibration, target_set, m_target_to_head, target_reached,
                       displacement_to_target_history, last_displacement_update_time,
                       last_warning, robot_pose, tracker, head_moving_too_fast, now>>

\* ------------------------------------------------------------ environment
\* the driver starts or finishes a motion by itself
DriverStep ==
    /\ \E d \in DriverReach(driver) \ {driver} : driver' = d
    /\ call' = Quiet
    /\ UNCHANGED <<relay, config, safe_height_defined_by_user, robot_pose_z, status_connection, robot, pid_group, calibration, objective, moving_away_from_head, target_set, m_target_to_head, target_reached,
                   displacement_to_target, displacement_to_target_history,
                   last_displacement_update_time, last_tuning_time, last_warning,
                   robot_pose, tracker, head_moving_too_fast, state, not_moving_counter,
                   waiting_start_time, now>>

\* the head starts or stops moving faster than the velocity threshold
HeadMotion ==
    /\ head_moving_too_fast' = ~head_moving_too_fast
    /\ call' = Quiet
    /\ UNCHANGED <<relay, config, safe_height_defined_by_user, robot_pose_z, status_connection, robot, pid_group, calibration, objective, moving_away_from_head, target_set, m_target_to_head, target_reached,
                   displacement_to_target, displacement_to_target_history,
                   last_displacement_update_time, last_tuning_time, last_warning,
                   robot_pose, tracker, state, not_moving_counter,
                   waiting_start_time, driver, now>>

AdvanceTime ==
    /\ now < MaxTime
    /\ now' = now + 1
    /\ call' = Quiet
    /\ UNCHANGED <<relay, config, safe_height_defined_by_user, robot_pose_z, status_connection, robot, pid_group, calibration, objective, moving_away_from_head, target_set, m_target_to_head, target_reached,
                   displacement_to_target, displacement_to_target_history,
                   last_displacement_update_time, last_tuning_time, last_warning,
                   robot_pose, tracker, head_moving_too_fast, state, not_moving_counter,
                   waiting_start_time, driver>>

\* ---------------------------------------------------------- specification
ConfigsWith(dwell_times, stop_if_not_visible) ==
    [dwell_time : dwell_times, stop_robot_if_head_not_visible : stop_if_not_visible,
     robot : RobotTypes, tuning_interval : {NoInterval}, use_pressure_sensor : {FALSE},
     working_space_radius : {2}, remote_control : {TRUE},
     movement_algorithm : {"radially_outward"}, safe_height : {UserSafeHeight}]

NoTracker ==
    [head_pose |-> FALSE, head_visible |-> FALSE, coil_visible |-> FALSE,
     m_tracker_to_robot |-> NoMatrix]

\* the Tracker Frame after a tracker update with both markers visible and
\* after the tracker-to-robot transform was set
GoodTracker ==
    [head_pose |-> TRUE, head_visible |-> TRUE, coil_visible |-> TRUE,
     m_tracker_to_robot |-> 1]

\* The controller as constructed and connected to the robot, at time 0, after
\* the messages that gave it the tracker frame trk, the target (when tset),
\* the objective obj and, when pose is a position, a first tick that read it.
InitWith(configs, obj, trk, tset, pose) ==
    /\ config \in configs
    /\ robot = SomeRobot
    /\ status_connection = "Connected"
    /\ pid_group = 0
    /\ calibration = NoCalibration
    /\ objective = obj
    /\ moving_away_from_head = FALSE
    /\ target_set = tset
    /\ m_target_to_head = IF tset THEN ComputeTransformationTargetToHead(trk, 1) ELSE NoTargetToHead
    /\ target_reached = FALSE
    /\ displacement_to_target = 0
    /\ displacement_to_target_history = <<>>
    /\ last_displacement_update_time = 0
    /\ last_tuning_time = 0
    /\ last_warning = ""
    /\ robot_pose = pose
    /\ robot_pose_z = InitialHeight(pose)
    /\ safe_height_defined_by_user = config.safe_height
    /\ tracker = trk
    /\ head_moving_too_fast = FALSE
    /\ state = READY
    /\ not_moving_counter = 0
    /\ waiting_start_time = NoTime
    /\ driver = "idle"
    /\ now = 0
    /\ call = Quiet
    /\ relay = NoRelay

SetObjective == \E o \in RobotObjective : OnSetObjective(o)

CoilAtTarget == \E reached \in BOOLEAN : OnCoilAtTarget(reached)

UpdateTrackerPoses == \E hv \in BOOLEAN, cv \in BOOLEAN : OnUpdateTrackerPoses(hv, cv)

\* the feed delivers at most MaxFeed displacements
FeedDisplacement ==
    \E raw \in Displacements :
        /\ Len(displacement_to_target_history) < MaxFeed
        /\ OnUpdateDisplacementToTarget(raw)

\* Execution of objectives with the tracker frame complete and the target set:
\* the state machine, the objectives, the stop commands.
Init == InitWith(ConfigsWith(DwellTimes, {TRUE}), NONE, GoodTracker, TRUE, 1)

Next ==
    \/ Update
    \/ UpdateWithFailedPosePoll
    \/ SetObjective
    \/ OnKeypressF12
    \/ DriverStep
    \/ AdvanceTime

Spec == Init /\ [][Next]_vars

\* Tracking with markers that come and go and a head that starts and stops moving.
InitVisibility == InitWith(ConfigsWith({2}, BOOLEAN), TRACK_TARGET, GoodTracker, TRUE, 1)

NextVisibility ==
    \/ Update
    \/ UpdateTrackerPoses
    \/ HeadMotion
    \/ DriverStep
    \/ AdvanceTime

SpecVisibility == InitVisibility /\ [][NextVisibility]_vars

\* Tracking before and after the target is set, with a feed that delivers
\* displacements inside and outside the working sphere and that goes stale.
InitDisplacement ==
    InitWith(ConfigsWith({0}, {TRUE}), TRACK_TARGET, GoodTracker, FALSE, 1)

NextDisplacement ==
    \/ Update
    \/ OnSetTarget
    \/ UpdateTrackerPoses
    \/ HeadMotion
    \/ FeedDisplacement
    \/ DriverStep
    \/ AdvanceTime

SpecDisplacement == InitDisplacement /\ [][NextDisplacement]_vars

\* the number of places where the feed changed value within the history
Changes(h) == Cardinality({i \in 1..(Len(h) - 1) : h[i] # h[i + 1]})

\* a feed that changes value at most MaxFeedChanges times within 20 displacements
FeedChangingDisplacement ==
    \E raw \in Displacements :
        /\ Changes(Append(displacement_to_target_history, FlipHandedness(raw)))
              <= MaxFeedChanges
        /\ OnUpdateDisplacementToTarget(raw)

\* a feed that repeats its first displacement
FeedFrozenDisplacement ==
    \E raw \in Displacements :
        /\ Changes(Append(displacement_to_target_history, FlipHandedness(raw))) = 0
        /\ OnUpdateDisplacementToTarget(raw)

\* Objectives executed by a driver that manages motion completion itself
\* (dwell_time 0), before any tracker data, under a long displacement feed.
InitFrozen == InitWith(ConfigsWith({0}, {TRUE}), NONE, NoTracker, FALSE, NoPose)

NextFrozen ==
    \/ Update
    \/ UpdateWithFailedPosePoll
    \/ SetObjective
    \/ FeedChangingDisplacement
    \/ DriverStep

SpecFrozen == InitFrozen /\ [][NextFrozen]_vars

\* Tracking with every safety violation possible: markers lost, head too fast,
\* target outside the working sphere, frozen feed.
InitSafety == InitWith(ConfigsWith({0}, BOOLEAN), TRACK_TARGET, GoodTracker, TRUE, 1)

NextSafety ==
    \/ Update
    \/ UpdateTrackerPoses
    \/ HeadMotion
    \/ FeedFrozenDisplacement
    \/ DriverStep

SpecSafety == InitSafety /\ [][NextSafety]_vars

\* Tracking with and without the pressure sensor, whose reader may not be
\* ready, and a coil that reaches and leaves the target.
InitPressure ==
    InitWith({ [cfg EXCEPT !.use_pressure_sensor = p]
               : cfg \in ConfigsWith({2}, {TRUE}), p \in BOOLEAN },
             TRACK_TARGET, GoodTracker, TRUE, 1)

NextPressure ==
    \/ Update
    \/ CoilAtTarget
    \/ DriverStep
    \/ AdvanceTime

SpecPressure == InitPressure /\ [][NextPressure]_vars

\* Calibration: samples are collected while the coil marker comes and goes,
\* the triple is estimated, set by neuronavigation and reset.
CreatePoint ==
    /\ Len(calibration.tracker_coordinates) < MaxSamples
    /\ OnCreatePoint

SetRobotTransformationMatrix == \E m \in MatrixTriples : OnSetRobotTransformationMatrix(m)

InitCalibration ==
    InitWith({ [cfg EXCEPT !.safe_height = h]
               : cfg \in ConfigsWith({0}, {TRUE}), h \in {UserSafeHeight, HighSafeHeight} },
             NONE, NoTracker, FALSE, NoPose)

NextCalibration ==
    \/ Update
    \/ UpdateWithFailedPosePoll
    \/ UpdateTrackerPoses
    \/ CreatePoint
    \/ OnResetRobotMatrix
    \/ OnRobotMatrixEstimation
    \/ SetRobotTransformationMatrix

SpecCalibration == InitCalibration /\ [][NextCalibration]_vars

\* Tracking with the directly-PID algorithm: targets and objectives are set
\* and unset, the robot is stopped by key, markers come and go.
InitPid ==
    InitWith({ [cfg EXCEPT !.movement_algorithm = "directly_PID"]
               : cfg \in ConfigsWith({0}, {TRUE}) },
             TRACK_TARGET, GoodTracker, TRUE, 1)

NextPid ==
    \/ Update
    \/ SetObjective
    \/ OnSetTarget
    \/ OnUnsetTarget
    \/ OnKeypressF12
    \/ UpdateTrackerPoses
    \/ FeedDisplacement

SpecPid == InitPid /\ [][NextPid]_vars

\* The controller as constructed, before any robot is connected: there is no
\* driver and no state controller yet.
ConnectionRobotTypes == RobotTypes \cup {"test"}

InitConnection ==
    /\ config \in { [cfg EXCEPT !.robot = r]
                     : cfg \in ConfigsWith({2}, {TRUE}), r \in ConnectionRobotTypes }
    /\ robot = None
    /\ status_connection = "Not Connected"
    /\ pid_group = 0
    /\ calibration = NoCalibration
    /\ objective = NONE
    /\ moving_away_from_head = FALSE
    /\ target_set = FALSE
    /\ m_target_to_head = NoTargetToHead
    /\ target_reached = FALSE
    /\ displacement_to_target = 0
    /\ displacement_to_target_history = <<>>
    /\ last_displacement_update_time = 0
    /\ last_tuning_time = 0
    /\ last_warning = ""
    /\ robot_pose = NoPose
    /\ robot_pose_z = InitialHeight(NoPose)
    /\ safe_height_defined_by_user = config.safe_height
    /\ tracker = NoTracker
    /\ head_moving_too_fast = FALSE
    /\ state = READY
    /\ not_moving_counter = 0
    /\ waiting_start_time = NoTime
    /\ driver = "idle"
    /\ now = 0
    /\ call = Quiet
    /\ relay = NoRelay

NextConnection ==
    \/ OnRobotConnection
    \/ Update
    \/ SetObjective
    \/ OnSetTarget
    \/ OnKeypressF12
    \/ UpdateTrackerPoses
    \/ FeedDisplacement
    \/ AdvanceTime

SpecConnection == InitConnection /\ [][NextConnection]_vars

\* ------------------------------------------------------------- properties
MotionIssued(c) == Has(c.cmds, "move_decision") \/ Has(c.cmds, "move_away_from_head")

StopIssued(c) == Has(c.cmds, "stop")

\* a tick of update() that went as far as dispatching on the objective o
DispatchedTick(o) ==
    /\ call.op = "update" /\ call.objective = o
    /\ call.state0 # None /\ call.ret # "raised"

\* guards 1 and 2 of the track-target cascade pass
PrerequisitesPresent ==
    target_set /\ tracker.head_pose /\ tracker.m_tracker_to_robot # NoMatrix

BothMarkersVisible == tracker.head_visible /\ tracker.coil_visible

\* the displacement-estimated target of the tick lies outside the working sphere
TargetOutside ==
    /\ tracker.head_pose /\ robot_pose # NoPose
    /\ displacement_to_target # NoDisplacement
    /\ Abs(robot_pose + displacement_to_target) >= config.working_space_radius

HeadLossDetected ==
    /\ DispatchedTick(TRACK_TARGET) /\ PrerequisitesPresent
    /\ config.stop_robot_if_head_not_visible /\ ~BothMarkersVisible

TooFastDetected ==
    /\ DispatchedTick(TRACK_TARGET) /\ PrerequisitesPresent
    /\ (BothMarkersVisible \/ ~config.stop_robot_if_head_not_visible)
    /\ head_moving_too_fast

OutsideDetected ==
    /\ DispatchedTick(TRACK_TARGET) /\ PrerequisitesPresent
    /\ (BothMarkersVisible \/ ~config.stop_robot_if_head_not_visible)
    /\ ~head_moving_too_fast
    /\ TargetOutside

\* the step is a displacement message that makes the 20 most recently
\* received displacements (after the sign flip) all equal
FrozenDetected ==
    /\ call'.op = "update_displacement_to_target"
    /\ Len(displacement_to_target_history) = HistoryLength - 1
    /\ \A i \in 1..Len(displacement_to_target_history) :
           displacement_to_target_history[i] = displacement_to_target'

\* C1: a tick of update() invokes a motion primitive (move_decision or
\* move_away_from_head) only if the state machine is READY after that tick's
\* state-machine update.
C1_MotionOnlyWhenReady ==
    (call.op = "update" /\ MotionIssued(call)) => call.state0 = READY

C1_Witness ==
    /\ call.op = "update" /\ call.objective = TRACK_TARGET
    /\ Has(call.cmds, "move_decision") /\ call.state0 = READY
    /\ state = START_MOVING

\* C7 as claimed: once in WAITING, the state does not change away from WAITING
\* before waiting_start + dwell_time.
C7_NoExitFromWaitingBeforeDwell ==
    [][(state = WAITING /\ now < waiting_start_time + config.dwell_time)
         => state' = WAITING]_vars

\* C7, amended: before waiting_start + dwell_time the state changes away from
\* WAITING only to STOPPING, by a stop command that reported success.
C7_OnlyStopLeavesWaitingBeforeDwell ==
    [][(state = WAITING /\ now < waiting_start_time + config.dwell_time
          /\ state' # WAITING)
         => (state' = STOPPING /\ StopIssued(call') /\ call'.ret = "True")]_vars

C7_Witness ==
    /\ state = WAITING /\ call.op = "update"
    /\ waiting_start_time < now
    /\ now < waiting_start_time + config.dwell_time

\* C8: with dwell_time = 0 the state machine is never in START_MOVING, MOVING
\* or WAITING, whatever ticks and successful motion commands happened.
C8_NoMotionStatesWithoutDwell ==
    config.dwell_time = 0 => state \notin {START_MOVING, MOVING, WAITING}

C8_Witness ==
    /\ config.dwell_time = 0 /\ call.op = "update"
    /\ Has(call.cmds, "move_decision") /\ call.ret = "True"
    /\ state = READY /\ driver = "pending"

\* C9 as claimed: stop_robot() (here called by the f12 handler) returns a
\* success/failure value and, when the stop was carried out, leaves the state
\* machine in STOPPING.
C9_StopReportsAndTransitions ==
    call.op = "keypress" =>
        /\ call.ret \in {"True", "False"}
        /\ call.ret = "True" => state = STOPPING

\* C10 as claimed: the first tick after the objective was set to
\* MOVE_AWAY_FROM_HEAD while the state machine was MOVING or START_MOVING, and
\* is still so after the tick's state update, issues a stop and does not
\* invoke move_away_from_head.
C10_FirstTickStops ==
    [][(/\ call.op = "set_objective" /\ call.arg = MOVE_AWAY_FROM_HEAD
        /\ state \in {MOVING, START_MOVING}
        /\ call'.op = "update" /\ call'.state0 \in {MOVING, START_MOVING})
         => (StopIssued(call') /\ ~Has(call'.cmds, "move_away_from_head"))]_vars

\* C2: in a TRACK_TARGET tick with the target set, the state variables and the
\* transform present and stop_robot_if_head_not_visible enabled, a head or
\* coil marker that is not visible makes the tick call stop_robot, reset the
\* movement algorithm, return the head-loss warning and issue no motion
\* primitive, whatever the state of the state machine.
C2_HeadLossStops ==
    HeadLossDetected =>
        /\ StopIssued(call) /\ call.resets > 0
        /\ call.warning = WarnNotVisible
        /\ ~MotionIssued(call)

C2_Witness ==
    /\ HeadLossDetected /\ tracker.head_visible /\ ~tracker.coil_visible
    /\ call.state0 = MOVING /\ StopIssued(call)

\* C3 as claimed: each of the four safety violations makes the step that
\* detects it issue a stop command and reset the movement algorithm.
C3_EveryViolationStopsAndResets ==
    [][(HeadLossDetected' \/ TooFastDetected' \/ OutsideDetected' \/ FrozenDetected)
         => (StopIssued(call') /\ call'.resets > 0)]_vars

\* C3, amended: head loss and a head moving too fast stop the robot and reset
\* the movement algorithm; a frozen feed stops the robot without resetting the
\* algorithm; a target outside the working sphere neither stops nor resets, it
\* returns the too-far warning.
C3_ViolationReactions ==
    [][/\ (HeadLossDetected' \/ TooFastDetected')
            => (StopIssued(call') /\ call'.resets > 0)
       /\ FrozenDetected => (StopIssued(call') /\ call'.resets = 0)
       /\ OutsideDetected'
            => (~StopIssued(call') /\ call'.resets = 0 /\ ~MotionIssued(call')
                /\ call'.warning = WarnTooFar)]_vars

C3_Witness ==
    /\ TooFastDetected /\ StopIssued(call) /\ call.resets > 0
    /\ Len(displacement_to_target_history) = HistoryLength - 1

\* C4: a displacement message that makes the 20 most recently received
\* displacements all equal stops the robot, sets the objective to NONE and
\* publishes the objective, whatever the objective was.
C4_FrozenFeedStops ==
    [][FrozenDetected
         => (/\ StopIssued(call')
             /\ objective' = NONE
             /\ Has(call'.sent, <<"set_objective", NONE>>))]_vars

C4_Witness ==
    /\ call.op = "update_displacement_to_target" /\ StopIssued(call)
    /\ call.objective = MOVE_AWAY_FROM_HEAD /\ objective = NONE
    /\ Len(displacement_to_target_history) = HistoryLength - 1

\* C5: a TRACK_TARGET tick at a time when the last displacement update is
\* older than 0.3 s issues no motion primitive.
C5_StaleNoMotion ==
    (DispatchedTick(TRACK_TARGET) /\ now > last_displacement_update_time + FreshnessLimit)
        => ~MotionIssued(call)

C5_Witness ==
    /\ DispatchedTick(TRACK_TARGET) /\ PrerequisitesPresent
    /\ now > last_displacement_update_time + FreshnessLimit
    /\ call.state0 = READY /\ last_tuning_time = now
    /\ displacement_to_target = NoDisplacement

\* C6 as claimed: a TRACK_TARGET tick whose displacement-estimated target has
\* a norm of at least working_space_radius issues no motion primitive and
\* returns a warning.
C6_OutsideSphereWarns ==
    (DispatchedTick(TRACK_TARGET) /\ TargetOutside)
        => (~MotionIssued(call) /\ call.warning # "")

\* C6, amended: such a tick issues no motion primitive; it returns a warning
\* when the target is set and the state variables are present, and that
\* warning is the too-far warning when the marker and head-speed guards pass.
C6_OutsideSphereNoMotion ==
    (DispatchedTick(TRACK_TARGET) /\ TargetOutside)
        => /\ ~MotionIssued(call)
           /\ PrerequisitesPresent => call.warning # ""
           /\ OutsideDetected => call.warning = WarnTooFar

C6_Witness ==
    /\ OutsideDetected /\ call.warning = WarnTooFar /\ call.state0 = READY

\* C11 as claimed: a tick flips the objective MOVE_AWAY_FROM_HEAD back to NONE
\* only when an away motion was initiated and the driver no longer reports
\* moving, for every dwell_time.
C11_FlipOnlyAfterAwayMotionEnded ==
    [][(call'.op = "update" /\ objective = MOVE_AWAY_FROM_HEAD /\ objective' = NONE)
         => (moving_away_from_head /\ ~IsMoving(driver'))]_vars

\* C12: in a tick with objective NONE, no stop and no motion command goes to
\* the driver when the state machine, after its update, is not MOVING; when it
\* is MOVING, a stop command is sent.
C12_NoneStopsOnlyWhenMoving ==
    DispatchedTick(NONE) =>
        /\ call.state0 # MOVING => call.cmds = <<>>
        /\ call.state0 = MOVING => (StopIssued(call) /\ ~MotionIssued(call))

C12_Witness ==
    /\ DispatchedTick(NONE) /\ call.state0 = MOVING /\ StopIssued(call)
    /\ state = STOPPING

\* C13 as claimed: a TRACK_TARGET tick in which all guards pass and
\* move_decision succeeds leaves the state machine in START_MOVING when
\* dwell_time > 0, for every sensor configuration.
C13_SuccessfulMoveStartsMoving ==
    (/\ DispatchedTick(TRACK_TARGET) /\ Has(call.cmds, "move_decision")
     /\ call.warning # WarnMove /\ config.dwell_time > 0)
        => state = START_MOVING

\* C14 as claimed: the state goes from START_MOVING to WAITING only when the
\* driver has reported not moving in more than 10 consecutive update() calls
\* since the last set_state_to_start_moving().
C14_WaitingOnlyAfterTenIdlePolls ==
    [][(state = START_MOVING /\ state' = WAITING)
         => not_moving_counter' > NotMovingLimit]_vars

\* the call forwarded its warning string to neuronavigation
WarningForwarded(c) == Has(c.sent, <<"update_robot_warning", c.warning>>)

\* C15 as claimed: a tick forwards its warning string to neuronavigation
\* exactly when the string differs from the warning of the previous tick.
C15_WarningForwardedOnChange ==
    [][(call'.op = "update" /\ call'.state0 # None /\ call'.ret # "raised")
         => (WarningForwarded(call') <=> call'.warning # last_warning)]_vars

\* C16: a tick at whose start the driver reports disconnection attempts
\* exactly one reconnect (and a tick that finds the driver connected none);
\* when the reconnect fails, update() returns false without fetching the pose,
\* advancing the state machine, dispatching the objective, issuing a driver
\* command or publishing anything.
C16_FailedReconnectEndsTick ==
    [][call'.op = "update" =>
         /\ call'.is_connected = "False" => Len(call'.connects) = 1
         /\ call'.is_connected = "True" => call'.connects = <<>>
         /\ call'.connects = <<"False">> =>
              /\ call'.ret = "False" /\ call'.state0 = None
              /\ call'.cmds = <<>> /\ call'.resets = 0 /\ call'.sent = <<>>
              /\ UNCHANGED <<robot_pose, state, not_moving_counter, waiting_start_time,
                             objective, moving_away_from_head, displacement_to_target,
                             last_tuning_time, last_warning, driver>>]_vars

C16_Witness ==
    /\ call.op = "update" /\ call.is_connected = "False" /\ call.connects = <<"False">>
    /\ call.ret = "False" /\ state = MOVING /\ objective = NONE /\ driver = "moving"

\* C17 as claimed: update() and the message handlers complete and report
\* their outcome as a value; none of them raises, in any controller state.
C17_NoErrorRaised ==
    call.ret # "raised"

\* C18: when the calibration estimation fails because the linear system is
\* singular, the matrix triple of the controller and that of the Tracker
\* Frame are left unchanged and no transformation-matrix update is published.
C18_SingularEstimationChangesNothing ==
    [][(call'.op = "robot_matrix_estimation" /\ call'.arg = "singular")
         => /\ calibration'.matrix_tracker_to_robot = calibration.matrix_tracker_to_robot
            /\ tracker'.m_tracker_to_robot = tracker.m_tracker_to_robot
            /\ call'.sent = <<>>]_vars

C18_Witness ==
    /\ call.op = "robot_matrix_estimation" /\ call.arg = "singular"
    /\ Len(calibration.tracker_coordinates) = 2
    /\ calibration.matrix_tracker_to_robot \in MatrixTriples
    /\ tracker.m_tracker_to_robot = calibration.matrix_tracker_to_robot

\* the number of samples held by each of the four calibration sequences;
\* the two lists of pose matrices start with a zero matrix that is no sample
SampleCounts(cal) ==
    <<Len(cal.robot_coord_matrix_list) - 1, Len(cal.coord_coil_matrix_list) - 1,
      Len(cal.tracker_coordinates), Len(cal.robot_coordinates)>>

\* C19: after any sequence of create_point and reset_robot_matrix messages the
\* four calibration sample sequences hold the same number of samples, and a
\* create_point that fails changes none of them.
C19_SampleSequencesInStep ==
    [][/\ \A i \in 1..4 : SampleCounts(calibration')[i] = SampleCounts(calibration')[1]
       /\ (call'.op = "create_point" /\ call'.ret = "False")
            => calibration' = calibration]_vars

C19_Witness ==
    /\ call.op = "create_point" /\ call.ret = "False"
    /\ SampleCounts(calibration) = <<1, 1, 1, 1>> /\ robot_pose # NoPose

\* C20 as claimed: the PID integrators are cleared by every handler that
\* changes the target (set_target, unset_target) or the objective
\* (set_objective, f12, unset_target, frozen-feed stop, completion of
\* move-away) and by every step that resets the movement algorithm.
C20_IntegratorsCleared ==
    [][(\/ call'.op \in {"set_target", "unset_target", "set_objective", "keypress"}
        \/ call'.op = "update" /\ objective # objective'
        \/ FrozenDetected
        \/ call'.resets > 0)
         => pid_group' = PidClear]_vars

\* the connection status a call published last
LastPublishedStatus(c) ==
    LET idx == {i \in 1..Len(c.sent) : c.sent[i][1] = "robot_connection_status"}
    IN IF idx = {} THEN None
       ELSE c.sent[CHOOSE i \in idx : \A j \in idx : j <= i][2]

\* C21 as claimed: the connection status published by a connection attempt
\* ends as "Connected" exactly when the driver's connect() succeeded and as
\* "Unable to connect" otherwise.
C21_StatusReflectsAttempt ==
    call.op = "robot_connection" =>
        LastPublishedStatus(call) =
            IF call.connects = <<"True">> THEN "Connected" ELSE "Unable to connect"

\* C22 as claimed: the driver motion flags used within one tick come from one
\* snapshot, so all is_moving() answers used in a tick are the same.
C22_OneMotionSnapshotPerTick ==
    call.op = "update" =>
        \A i, j \in 1..Len(call.polls) : call.polls[i] = call.polls[j]

\* ------------------------------------------- keypress during a tick
\* on_keypress() for the key f12, as run by the keyboard listener thread on
\* the fields a tick in progress is working with
KeypressF12(c) ==
    { SendObjectiveToNeuronavigation([c1 EXCEPT !.objective = NONE])
      : c1 \in StopRobot(c, config.robot) }

\* the guards of handle_objective_track_target() up to the READY check all pass
PassesReadyCheck(c, sv) ==
    /\ target_set /\ sv.head_center /\ sv.head_pose_in_robot_space
    /\ tracker.m_tracker_to_robot # NoMatrix
    /\ ~(~MarkersVisible(tracker) /\ config.stop_robot_if_head_not_visible)
    /\ ~head_moving_too_fast
    /\ sv.target_from_displacement # NoTarget
    /\ ~OutsideWorkingSpace(sv.target_from_displacement, config.working_space_radius)
    /\ RobotReady(c.state)

\* a tick of update() under TRACK_TARGET during which the listener thread
\* runs the f12 handler right after the tick's READY check
TickWithKeypressF12(c, t) ==
    UNION { UNION {
        LET pose == UpdateRobotPose(robot_pose, poll)
            z == UpdateRobotPose(robot_pose_z, [poll EXCEPT !.pose = poll.z])
            sv == StateVariables(tracker, pose, c1.displacement_to_target)
        IN IF ~StateVariablesRaise(tracker, pose, c1.displacement_to_target)
              /\ c1.objective = TRACK_TARGET
              /\ PassesReadyCheck(c1, sv)
           THEN { [c |-> SendWarningToNeuronavigation(c3, last_warning), pose |-> pose,
                   z |-> z, safe_height |-> SafeHeightAfter(tracker, z, sv),
                   state0 |-> c1.state, published |-> TRUE]
                  : c3 \in UNION { TrackTargetWhenReady(c2, t) : c2 \in KeypressF12(c1) } }
           ELSE {}
        : c1 \in StateUpdates([c EXCEPT !.pose_poll = poll.ok], t) }
        : poll \in PosePolls }

UpdateWithKeypressF12 ==
    /\ robot # None /\ DriverHasIsConnected(config.robot)
    /\ \E out \in TickWithKeypressF12([Ctx EXCEPT !.is_connected = "True"], now) :
        /\ Commit(out.c)
        /\ robot_pose' = out.pose
        /\ robot_pose_z' = out.z
        /\ config' = [config EXCEPT !.safe_height = out.safe_height]
        /\ last_warning' = out.c.warning
        /\ call' = [CallOf("update", objective, out.c) EXCEPT !.state0 = out.state0,
                                                              !.arg = "f12"]
        /\ UNCHANGED <<relay, safe_height_defined_by_user, status_connection, robot, pid_group,
                       calibration, target_set, m_target_to_head, target_reached,
                       displacement_to_target_history, last_displacement_update_time,
                       tracker, head_moving_too_fast, now>>

\* Ticks, objectives and f12 keypresses, the keypress before, after or during a tick.
NextKeypress ==
    \/ Update
    \/ UpdateWithFailedPosePoll
    \/ UpdateWithKeypressF12
    \/ SetObjective
    \/ OnKeypressF12
    \/ DriverStep
    \/ AdvanceTime

SpecKeypress == Init /\ [][NextKeypress]_vars

\* the motion primitives
MotionPrimitives == {"move_decision", "move_away_from_head"}

\* C23: once an f12 keypress has been handled, no motion primitive is issued
\* until a new objective is set: a tick that starts after the keypress (the
\* objective is NONE) issues none, and a tick during which the keypress is
\* handled issues none after the keypress's stop.
C23_NoMotionAfterF12 ==
    call.op = "update" =>
        /\ call.objective = NONE => ~MotionIssued(call)
        /\ call.arg = "f12" =>
               \A i, j \in 1..Len(call.cmds) :
                   i < j /\ call.cmds[i] = "stop" => call.cmds[j] \notin MotionPrimitives

\* every is_moving() poll of the call got the answer "moving"
DriverReportedMoving(c) ==
    c.polls # <<>> /\ \A i \in 1..Len(c.polls) : c.polls[i]

\* C24: when a stop command has been issued and the driver still reports
\* moving at the tick that follows, that tick issues the stop command again.
C24_StopReissuedWhileStillMoving ==
    [][ StopIssued(call) /\ call'.op = "update" /\ call'.state0 # None
        /\ call'.ret # "raised" /\ DriverReportedMoving(call')
        => StopIssued(call') ]_vars

\* C25: when the driver's pose poll fails in a tick, the tick is skipped: it
\* issues no motion primitive, changes no state, and the Pose Store keeps the
\* last pose that was read.
C25_FailedPosePollSkipsTick ==
    [][ call'.op = "update" /\ call'.pose_poll = "False"
        => /\ ~MotionIssued(call')
           /\ state' = state
           /\ robot_pose' = robot_pose ]_vars

\* Holding at the target: the coil reaches and leaves the target, with and
\* without a pressure sensor and with and without a tuning interval.
TuningIntervals == {NoInterval, 1}

InitHolding ==
    InitWith({ [cfg EXCEPT !.use_pressure_sensor = p, !.tuning_interval = ti]
               : cfg \in ConfigsWith({0}, {TRUE}), p \in BOOLEAN, ti \in TuningIntervals },
             TRACK_TARGET, GoodTracker, TRUE, 1)

NextHolding ==
    \/ Update
    \/ CoilAtTarget
    \/ FeedDisplacement
    \/ DriverStep
    \/ AdvanceTime

SpecHolding == InitHolding /\ [][NextHolding]_vars

\* C26: a TRACK_TARGET tick with the state machine READY issues no motion
\* primitive when the target was reached, the force is within tolerance of the
\* setpoint or there is no force source, and the tuning interval has not
\* elapsed since the last tuning or there is no tuning interval.
C26_HoldingIssuesNoMotion ==
    [][ /\ call'.op = "update" /\ call'.objective = TRACK_TARGET /\ call'.state0 = READY
        /\ target_reached
        /\ call'.force \in {"True", "absent"}
        /\ \/ config.tuning_interval = NoInterval
           \/ now - last_tuning_time <= config.tuning_interval
        => ~MotionIssued(call') ]_vars

\* a tick held at the target although a tuning interval is configured, and
\* one held because the pressure sensor found the force near the setpoint
C26_Witness ==
    /\ DispatchedTick(TRACK_TARGET) /\ call.state0 = READY /\ target_reached
    /\ call.force = "True" /\ config.tuning_interval # NoInterval
    /\ now > 0 /\ call.cmds = <<>> /\ last_tuning_time < now

\* the larger of two heights
Highest(a, b) == IF a < b THEN b ELSE a

\* C27: after every tick in which the tracker-to-robot transform is available,
\* config safe_height is the larger of the user-configured safe height and the
\* robot's z (the user's value when the robot's z is unknown), and the
\* user-configured value is never overwritten.
C27_SafeHeightIsMaximum ==
    [][ /\ safe_height_defined_by_user' = safe_height_defined_by_user
        /\ call'.op = "update" /\ call'.state0 # None /\ call'.ret # "raised"
           /\ tracker'.m_tracker_to_robot # NoMatrix
           => config'.safe_height =
                  IF robot_pose_z' = NoPose THEN safe_height_defined_by_user
                  ELSE Highest(safe_height_defined_by_user, robot_pose_z') ]_vars

\* C28: every change of the state machine's state produces exactly one log
\* line naming the new state: the log lines of a call are the states the call
\* entered, in order, whether update() or one of the two setters made the change.
C28_EveryStateChangeLogged == call.logs = call.changes

\* ------------------------------------------------------------ relay_server
MaxMessages == 3

\* the data of the messages the two sides send
MessageData == {1, 2}

\* an event handler of the relay: the message is received and a task that
\* emits it under the outgoing event name is created
RelayHandler(event, out_event, msg) ==
    /\ Len(relay.received) < MaxMessages
    /\ relay' = [relay EXCEPT !.received = Append(@, <<event, msg>>),
                              !.tasks = Append(@, <<out_event, msg>>)]
    /\ UNCHANGED <<config, safe_height_defined_by_user, robot_pose_z, robot,
                   status_connection, pid_group, calibration, objective,
                   moving_away_from_head, target_set, m_target_to_head, target_reached,
                   displacement_to_target, displacement_to_target_history,
                   last_displacement_update_time, last_tuning_time, last_warning,
                   robot_pose, tracker, head_moving_too_fast, state, not_moving_counter,
                   waiting_start_time, driver, now, call>>

\* from_neuronavigation(sid, msg)
FromNeuronavigation == \E msg \in MessageData : RelayHandler("from_neuronavigation", "to_robot", msg)

\* from_robot(sid, msg)
FromRobot == \E msg \in MessageData : RelayHandler("from_robot", "to_neuronavigation", msg)

\* restart_robot_main_loop(sid)
RestartRobotMainLoop ==
    RelayHandler("restart_robot_main_loop", "restart_robot_main_loop", None)

RelayTaskToRun_Any == 1..Len(relay.tasks)

\* the event loop starts the tasks in the order of their creation
RelayTaskToRun == IF relay.tasks = <<>> THEN {} ELSE {1}

\* the event loop runs one task created by asyncio.create_task(): sio.emit()
RunRelayTask ==
    /\ \E i \in RelayTaskToRun :
        relay' = [relay EXCEPT
                    !.tasks = SubSeq(@, 1, i - 1) \o SubSeq(@, i + 1, Len(@)),
                    !.emitted = Append(@, relay.tasks[i])]
    /\ UNCHANGED <<config, safe_height_defined_by_user, robot_pose_z, robot,
                   status_connection, pid_group, calibration, objective,
                   moving_away_from_head, target_set, m_target_to_head, target_reached,
                   displacement_to_target, displacement_to_target_history,
                   last_displacement_update_time, last_tuning_time, last_warning,
                   robot_pose, tracker, head_moving_too_fast, state, not_moving_counter,
                   waiting_start_time, driver, now, call>>

\* The relay server between neuronavigation and the robot.
InitRelay == InitWith(ConfigsWith({0}, {TRUE}), NONE, NoTracker, FALSE, NoPose)

NextRelay ==
    \/ FromNeuronavigation
    \/ FromRobot
    \/ RestartRobotMainLoop
    \/ RunRelayTask

SpecRelay == InitRelay /\ [][NextRelay]_vars

\* the data of the messages of one event, in order
DataOf(messages, event) ==
    LET of_event == SelectSeq(messages, LAMBDA m : m[1] = event)
    IN [i \in 1..Len(of_event) |-> of_event[i][2]]

IsPrefix(a, b) == Len(a) <= Len(b) /\ \A i \in 1..Len(a) : a[i] = b[i]

\* the emissions of out_event are the messages received as event, one for
\* one and in order, and none is missing once no task is left
Forwarded(event, out_event) ==
    /\ IsPrefix(DataOf(relay.emitted, out_event), DataOf(relay.received, event))
    /\ relay.tasks = <<>> =>
           DataOf(relay.emitted, out_event) = DataOf(relay.received, event)

\* C29: every 'from_neuronavigation' message is forwarded as exactly one
\* 'to_robot' emission with the same data and every 'from_robot' message as
\* exactly one 'to_neuronavigation' emission with the same data, and the
\* emissions of one direction are in the order in which the messages came.
C29_RelayForwardsOnceInOrder ==
    /\ Forwarded("from_neuronavigation", "to_robot")
    /\ Forwarded("from_robot", "to_neuronavigation")

\* two different messages of neuronavigation forwarded in order, with a
\* message of the robot forwarded between them
C29_Witness ==
    /\ relay.tasks = <<>>
    /\ relay.emitted = <<<<"to_robot", 1>>, <<"to_neuronavigation", 2>>, <<"to_robot", 2>>>>

\* C30: when the driver's stop command reports failure, stop_robot() returns
\* failure and leaves the state machine's state as it was; a call in which the
\* state machine entered STOPPING holds a stop command that reported success.
C30_StoppingOnlyAfterSuccessfulStop ==
    /\ \A i \in 1..Len(call.stops) :
           call.stops[i].reported # "True" =>
               /\ call.stops[i].returned # "True"
               /\ call.stops[i].after = call.stops[i].before
    /\ Has(call.changes, STOPPING) =>
           \E i \in 1..Len(call.stops) : call.stops[i].reported = "True"

\* a tick under objective NONE whose stop command failed while the robot was MOVING
C30_Witness ==
    /\ DispatchedTick(NONE) /\ Len(call.stops) = 1
    /\ call.stops[1].reported = "False" /\ call.stops[1].before = MOVING
    /\ state = MOVING /\ call.ret = "False"

\* Tracking while the prerequisites of the cascade come and go: the target is
\* set and unset, the tracker poses and the transform arrive late or never.
TrackerWithoutTransform ==
    [head_pose |-> TRUE, head_visible |-> TRUE, coil_visible |-> TRUE,
     m_tracker_to_robot |-> NoMatrix]

InitPrerequisites ==
    \E trk \in {GoodTracker, NoTracker, TrackerWithoutTransform} :
        InitWith(ConfigsWith({2}, {TRUE}), TRACK_TARGET, trk, TRUE, 1)

\* neuronavigation asks for tracking again
NextPrerequisites ==
    \/ Update
    \/ OnSetObjective(TRACK_TARGET)
    \/ OnSetTarget
    \/ OnUnsetTarget
    \/ UpdateTrackerPoses
    \/ DriverStep
    \/ AdvanceTime

SpecPrerequisites == InitPrerequisites /\ [][NextPrerequisites]_vars

\* C31: a TRACK_TARGET tick in which the target is not set or the head pose
\* or the tracker-to-robot transform is missing sends neither a stop nor a
\* motion primitive to the driver, leaves the state machine as the
\* state-machine update left it and returns an empty warning, whatever the
\* state and the visibility of the markers.
C31_MissingPrerequisiteEndsCascade ==
    DispatchedTick(TRACK_TARGET) /\ ~PrerequisitesPresent =>
        /\ call.cmds = <<>>
        /\ state = call.state0
        /\ call.warning = ""

\* the target is not set while the robot is MOVING and a marker is hidden
C31_Witness ==
    /\ DispatchedTick(TRACK_TARGET) /\ ~target_set
    /\ call.state0 = MOVING /\ config.stop_robot_if_head_not_visible
    /\ ~BothMarkersVisible /\ state = MOVING

\* A long displacement feed received before any robot is connected.
MaxHistory == 21

FeedBeforeConnection ==
    \E raw \in Displacements :
        /\ Len(displacement_to_target_history) < MaxHistory
        /\ Changes(Append(displacement_to_target_history, FlipHandedness(raw)))
              <= MaxFeedChanges
        /\ OnUpdateDisplacementToTarget(raw)

NextUnconnectedFeed ==
    \/ FeedBeforeConnection
    \/ SetObjective
    \/ AdvanceTime

SpecUnconnectedFeed == InitConnection /\ [][NextUnconnectedFeed]_vars

\* the latest n entries of a history
Latest(h, n) == IF Len(h) <= n THEN h ELSE SubSeq(h, Len(h) - n + 1, Len(h))

\* the displacements the step's frozen-feed check should look at: the latest
\* 19 of the history and the displacement just received, after the sign flip
LatestReceived(raw) ==
    Append(Latest(displacement_to_target_history, HistoryLength - 1), FlipHandedness(raw))

\* C32: a displacement message leaves at most 19 entries in the history, and
\* it neither stops the robot nor changes the objective when fewer than 20
\* displacements have been received or the latest 20 are not all equal.
C32_FrozenFeedLooksAtLatestTwenty ==
    [][ \A raw \in Displacements :
          call'.op = "update_displacement_to_target" /\ call'.arg = ToString(raw)
          => /\ Len(displacement_to_target_history') <= HistoryLength - 1
             /\ (\/ Len(LatestReceived(raw)) < HistoryLength
                 \/ \E i \in 1..Len(LatestReceived(raw)) :
                        LatestReceived(raw)[i] # LatestReceived(raw)[1])
                => (~StopIssued(call') /\ objective' = objective) ]_vars

\* ------------------------------------------------- state machine alone
\* The state machine of RobotStateController driven through its three
\* methods only: update(), set_state_to_start_moving(), set_state_to_stopping().
\* Commands are issued only during the first MaxTime time units.
CommandsMayBeIssued == now < MaxTime

ControllerOnly ==
    UNCHANGED <<relay, config, safe_height_defined_by_user, robot_pose_z, status_connection,
                robot, pid_group, calibration, target_set, m_target_to_head, target_reached,
                displacement_to_target_history, last_displacement_update_time,
                last_warning, robot_pose, tracker, head_moving_too_fast>>

\* RobotStateController.update() called once
StateControllerUpdate ==
    \E c \in StateUpdates(Ctx, now) :
        /\ Commit(c)
        /\ call' = CallOf("state_update", objective, c)
        /\ now' = now
        /\ ControllerOnly

\* a motion command reaches the driver and set_state_to_start_moving() is called
StartMovingCommand ==
    /\ CommandsMayBeIssued
    /\ LET c == SetStateToStartMoving([Ctx EXCEPT !.driver = MotionCommand(@)],
                                      config.dwell_time)
       IN /\ Commit(c)
          /\ call' = CallOf("set_state_to_start_moving", objective, c)
    /\ now' = now
    /\ ControllerOnly

\* a stop command reaches the driver and set_state_to_stopping() is called
StoppingCommand ==
    /\ CommandsMayBeIssued
    /\ \E d \in {driver, "idle"} :
         LET c == SetStateToStopping([Ctx EXCEPT !.driver = d])
         IN /\ Commit(c)
            /\ call' = CallOf("set_state_to_stopping", objective, c)
    /\ now' = now
    /\ ControllerOnly

\* the driver finishes what it was commanded to do
DriverSettles ==
    /\ driver # "idle"
    /\ driver' = IF driver = "pending" THEN "moving" ELSE "idle"
    /\ call' = Quiet
    /\ UNCHANGED <<state, not_moving_counter, waiting_start_time, objective,
                   moving_away_from_head, displacement_to_target, last_tuning_time, now>>
    /\ ControllerOnly

\* time passes: while commands may be issued, and for as long as a dwell lasts
TimePasses ==
    /\ \/ CommandsMayBeIssued
       \/ state = WAITING /\ now < waiting_start_time + config.dwell_time
    /\ now' = now + 1
    /\ call' = Quiet
    /\ UNCHANGED <<state, not_moving_counter, waiting_start_time, objective,
                   moving_away_from_head, displacement_to_target, last_tuning_time, driver>>
    /\ ControllerOnly

InitStateMachine == InitWith(ConfigsWith(DwellTimes, {TRUE}), NONE, NoTracker, FALSE, 1)

NextStateMachine ==
    \/ StateControllerUpdate
    \/ StartMovingCommand
    \/ StoppingCommand
    \/ DriverSettles
    \/ TimePasses

\* update() keeps being called, time advances, the driver comes to rest
SpecStateMachine ==
    /\ InitStateMachine
    /\ [][NextStateMachine]_vars
    /\ WF_vars(StateControllerUpdate)
    /\ WF_vars(DriverSettles)
    /\ WF_vars(TimePasses)

\* C33: the state machine has no terminal state: once no new start or stop
\* command is issued, with update() called again and again, time advancing and
\* the driver coming to rest, the state machine is eventually READY, whatever
\* state it was in.
C33_EventuallyReady == ~CommandsMayBeIssued ~> (state = READY)

\* the long way: the motion never showed, the counter ran out, the dwell was waited
C33_Witness ==
    /\ ~CommandsMayBeIssued
    /\ call.op = "state_update"
    /\ call.changes = <<READY>>
    /\ config.dwell_time > 0
    /\ not_moving_counter > NotMovingLimit

\* C34: between ticks the flag moving_away_from_head is set only while the
\* objective is MOVE_AWAY_FROM_HEAD (so that a newly set MOVE_AWAY_FROM_HEAD
\* objective always gets its move_away_from_head before it is reset to NONE).
C34_AwayFlagOnlyUnderAwayObjective ==
    moving_away_from_head => objective = MOVE_AWAY_FROM_HEAD

\* C35: one call of RobotStateController.update() performs at most one
\* transition of the state machine, whatever the driver answers to the
\* successive is_moving() polls of that call.
C35_OneTransitionPerUpdate ==
    call.op = "state_update" => Len(call.changes) <= 1

\* C36: after any sequence of robot_matrix_estimation,
\* set_robot_transformation_matrix and reset_robot_matrix messages the
\* controller's matrix_tracker_to_robot and the transform stored in the tracker
\* agree: both unset or the same triple; after reset_robot_matrix the tracker
\* holds no transform.
C36_TransformsAgree ==
    calibration.matrix_tracker_to_robot = tracker.m_tracker_to_robot

\* ------------------------------------------------ targets set and unset
\* Targets are set and unset, with and without a robot: no robot was ever
\* connected, or the robot is connected and tracks a target.
TargetConfigs ==
    { [cfg EXCEPT !.movement_algorithm = a]
      : cfg \in ConfigsWith({0}, {TRUE}), a \in {"radially_outward", "directly_PID"} }

InitWithoutRobot ==
    /\ config \in TargetConfigs
    /\ robot = None
    /\ status_connection = "Not Connected"
    /\ pid_group = 0
    /\ calibration = NoCalibration
    /\ objective = NONE
    /\ moving_away_from_head = FALSE
    /\ target_set = FALSE
    /\ m_target_to_head = NoTargetToHead
    /\ target_reached = FALSE
    /\ displacement_to_target = 0
    /\ displacement_to_target_history = <<>>
    /\ last_displacement_update_time = 0
    /\ last_tuning_time = 0
    /\ last_warning = ""
    /\ robot_pose = NoPose
    /\ robot_pose_z = InitialHeight(NoPose)
    /\ safe_height_defined_by_user = config.safe_height
    /\ tracker = NoTracker
    /\ head_moving_too_fast = FALSE
    /\ state = READY
    /\ not_moving_counter = 0
    /\ waiting_start_time = NoTime
    /\ driver = "idle"
    /\ now = 0
    /\ call = Quiet
    /\ relay = NoRelay

InitTarget ==
    \/ InitWithoutRobot
    \/ InitWith(TargetConfigs, TRACK_TARGET, GoodTracker, TRUE, 1)

NextTarget ==
    \/ Update
    \/ SetObjective
    \/ OnSetTarget
    \/ OnUnsetTarget
    \/ UpdateTrackerPoses
    \/ FeedDisplacement

SpecTarget == InitTarget /\ [][NextTarget]_vars

\* C37: set_target while no robot is initialised is rejected without effect:
\* target_set, m_target_to_head, the state of the movement algorithm and the
\* PID state are unchanged. After unset_target, target_set is false,
\* m_target_to_head is unset and the objective is NONE and has been published.
C37_SetTargetNeedsRobot ==
    [][ /\ (robot = None /\ call'.op = "set_target")
            => /\ target_set' = target_set
               /\ m_target_to_head' = m_target_to_head
               /\ call'.resets = 0
               /\ pid_group' = pid_group
        /\ call'.op = "unset_target"
            => /\ ~target_set'
               /\ m_target_to_head' = NoTargetToHead
               /\ objective' = NONE
               /\ Has(call'.sent, <<"set_objective", NONE>>) ]_vars

\* a target arrives with no robot while the PID integrator holds something
C37_Witness ==
    /\ call.op = "set_target" /\ robot = None
    /\ UsesPid /\ pid_group # PidClear
    /\ ~target_set /\ m_target_to_head = NoTargetToHead
====
